---- MODULE Spec2Model ----
(***************************************************************************)
(* A model of the pow2_game line reducer (Board::get_mergeable and         *)
(* Board::shift_group of src/board/mod.rs) and of the tile operations it   *)
(* rests on (Cell::new, Cell::grow, Cell::merge of src/cell/mod.rs, and    *)
(* the earlier draft of the tile in src/cell.rs), and of the Board that    *)
(* holds the grid and its history (Board::new, spawn, spawn_at,            *)
(* board_undo, board_shift and movement of src/board/mod.rs).             *)
(*                                                                         *)
(* A Cell is the usize it wraps.  An Option<T> is a sequence of length at  *)
(* most one: None is <<>> and Some(x) is <<x>>.  A Vec is a sequence; the  *)
(* code's indices are 0-based and are kept 0-based here, so that the slot  *)
(* at index idx of a Vec v is v[idx + 1].                                  *)
(***************************************************************************)
EXTENDS Integers, Sequences, FiniteSets, TLC

\* Width of usize in the model (64 in the build); arithmetic is modulo 2^USIZE_BITS.
USIZE_BITS == 6
\* Length of the longest line handed to the line reducer.
MaxLen == 4
\* Size of the board in the model (BOARD_ROWS = BOARD_COLS = 4 in the build).
BOARD_ROWS == 2
BOARD_COLS == 2
\* HISTORY_SIZE of src/board/mod.rs.
HISTORY_SIZE == 1

VARIABLES
    pc,         \* "start" or "board", then the name of the function that has been called
    cells,      \* the line handed to get_mergeable / shift_group
    mergeable,  \* the Vec<(usize, usize)> returned by get_mergeable
    merged,     \* shift_group's local `result` after the "merge pairs" loop
    result,     \* shift_group's local `result` when the function ends
    ret,        \* shift_group's return value, an Option<Vec<BoardCell>>
    panicked,   \* TRUE iff the call unwound with a panic instead of returning
    mergee,     \* the cell a Cell operation is called on (`self`)
    merger,     \* the other cell of Cell::merge (`other`)
    before,     \* <<mergee, merger>> as they were when the Cell operation was called
    outcome,    \* what the Cell or Board operation returned: "Ok", "Err" or "Panic"
    grid,       \* Board.grid
    history,    \* Board.history
    coord,      \* the BoardCoord handed to Board::spawn_at when it is called on its own
    lastMove    \* the Move handed to Board::movement, NoMove in any other call

vars == <<pc, cells, mergeable, merged, result, ret, panicked, mergee, merger, before, outcome,
          grid, history, coord, lastMove>>
lineVars == <<cells, mergeable, merged, result, ret, panicked>>
cellVars == <<mergee, merger, before, outcome>>
boardVars == <<grid, history, coord, lastMove>>

(***************************************************************************)
(* Option<T>                                                               *)
(***************************************************************************)
None == <<>>
Some(x) == <<x>>
is_some(opt) == opt # <<>>
is_none(opt) == opt = <<>>
unwrap(opt) == opt[1]

(***************************************************************************)
(* usize                                                                   *)
(***************************************************************************)
USIZE_MAX == 2 ^ USIZE_BITS - 1
Usize == 0 .. USIZE_MAX

RECURSIVE count_ones(_)
count_ones(v) == IF v = 0 THEN 0 ELSE (v % 2) + count_ones(v \div 2)

\* v << n on a usize: the bits shifted past the top are lost.
shl(v, n) == (v * 2 ^ n) % 2 ^ USIZE_BITS

(***************************************************************************)
(* src/cell/mod.rs                                                         *)
(***************************************************************************)
value(cell) == cell

new_allows_one(v) ==
    IF count_ones(v) # 1
    THEN [panicked |-> TRUE, cell |-> None]
    ELSE [panicked |-> FALSE, cell |-> Some(v)]

\* Cell::new: the cell, or a panic.
new(v) ==
    IF count_ones(v) # 1 \/ v < 2
    THEN [panicked |-> TRUE, cell |-> None]
    ELSE [panicked |-> FALSE, cell |-> Some(v)]

MSB_SET == shl(1, USIZE_BITS - 1)

grow_no_msb_check(self) ==
    IF count_ones(self) # 1 THEN [outcome |-> "Panic", self |-> self]
    ELSE IF ~(self > 1) THEN [outcome |-> "Panic", self |-> self]
    ELSE [outcome |-> "Ok", self |-> shl(self, 1)]

\* Cell::grow: the outcome and the value `self` holds afterwards.
grow(self) ==
    IF count_ones(self) # 1 THEN [outcome |-> "Panic", self |-> self]
    ELSE IF ~(self > 1) THEN [outcome |-> "Panic", self |-> self]
    ELSE IF MSB_SET = self THEN [outcome |-> "Err", self |-> self]
    ELSE [outcome |-> "Ok", self |-> shl(self, 1)]

merge_without_grow(self, other) ==
    IF self = other
    THEN [outcome |-> "Ok", self |-> self, other |-> other]
    ELSE [outcome |-> "Err", self |-> self, other |-> other]

\* Cell::merge: `drop(other)` drops the reference, the cell it refers to is
\* left as it was; `self.grow().unwrap()` panics when grow does not return Ok.
merge(self, other) ==
    IF self = other
    THEN LET g == grow(self) IN
         IF g.outcome = "Ok"
         THEN [outcome |-> "Ok", self |-> g.self, other |-> other]
         ELSE [outcome |-> "Panic", self |-> g.self, other |-> other]
    ELSE [outcome |-> "Err", self |-> self, other |-> other]

(***************************************************************************)
(* src/cell.rs, the earlier draft: the empty cell is the cell of value 0   *)
(***************************************************************************)
draft_is_empty(self) == value(self) = 0

draft_despawn(self) ==
    IF draft_is_empty(self)
    THEN [outcome |-> "Err", self |-> self]
    ELSE [outcome |-> "Ok", self |-> 0]

draft_spawn_overwrites(self, gen_bool) ==
    [outcome |-> "Ok", self |-> IF gen_bool THEN 4 ELSE 2]

\* Cell::spawn of the draft; gen_bool is what gen_bool(CHANCE_OF_FOUR) returns.
draft_spawn(self, gen_bool) ==
    IF ~draft_is_empty(self)
    THEN [outcome |-> "Err", self |-> self]
    ELSE [outcome |-> "Ok", self |-> IF gen_bool THEN 4 ELSE 2]

draft_grow(self) ==
    IF draft_is_empty(self) THEN [outcome |-> "Err", self |-> self]
    ELSE IF self * 2 > USIZE_MAX THEN [outcome |-> "Err", self |-> self]
    ELSE [outcome |-> "Ok", self |-> self * 2]

draft_merge(self, other) ==
    IF ~draft_is_empty(self) /\ draft_is_empty(other)
    THEN [outcome |-> "Err", self |-> self, other |-> other]
    ELSE IF draft_is_empty(self) /\ ~draft_is_empty(other)
    THEN [outcome |-> "Err", self |-> self, other |-> other]
    ELSE IF draft_is_empty(self) /\ draft_is_empty(other)
    THEN [outcome |-> "Err", self |-> self, other |-> other]
    ELSE IF value(self) # value(other)
    THEN [outcome |-> "Err", self |-> self, other |-> other]
    ELSE LET g == draft_grow(self) IN
         IF g.outcome # "Ok"
         THEN [outcome |-> "Panic", self |-> g.self, other |-> other]
         ELSE LET d == draft_despawn(other) IN
              IF d.outcome # "Ok"
              THEN [outcome |-> "Panic", self |-> g.self, other |-> d.self]
              ELSE [outcome |-> "Ok", self |-> g.self, other |-> d.self]

(***************************************************************************)
(* src/board/mod.rs: Board::get_mergeable                                  *)
(***************************************************************************)
\* A BoardCell is an Option<Cell>.  The cells Cell::new lets exist:
ValidCells == {v \in Usize : ~new(v).panicked}
BoardCells == {None} \cup {Some(v) : v \in ValidCells}

\* The local struct RefCell: the pending tile's index and value.
RefCell(index, val) == [index |-> index, value |-> val]

get_mergeable_body_keeps_rc(st, idx, cell_opt) ==
    IF is_some(cell_opt)
    THEN LET val == value(unwrap(cell_opt)) IN
         IF is_some(st.rc.index) /\ is_some(st.rc.value) /\ val = unwrap(st.rc.value)
         THEN [result |-> Append(st.result, <<unwrap(st.rc.index), idx>>),
               rc |-> RefCell(Some(idx), Some(val))]
         ELSE [result |-> st.result, rc |-> RefCell(Some(idx), Some(val))]
    ELSE st

get_mergeable_body_skips_over(st, idx, cell_opt) ==
    IF is_some(cell_opt)
    THEN LET val == value(unwrap(cell_opt)) IN
         IF is_some(st.rc.index) /\ is_some(st.rc.value) /\ val = unwrap(st.rc.value)
         THEN [result |-> Append(st.result, <<unwrap(st.rc.index), idx>>),
               rc |-> RefCell(None, None)]
         ELSE IF is_some(st.rc.index) THEN st
         ELSE [result |-> st.result, rc |-> RefCell(Some(idx), Some(val))]
    ELSE st

\* One turn of `for (idx, cell_opt) in iter`: st holds `result` and `rc`.
get_mergeable_body(st, idx, cell_opt) ==
    IF is_some(cell_opt)
    THEN LET val == value(unwrap(cell_opt)) IN
         IF is_some(st.rc.index) /\ is_some(st.rc.value) /\ val = unwrap(st.rc.value)
         THEN [result |-> Append(st.result, <<unwrap(st.rc.index), idx>>),
               rc |-> RefCell(None, None)]
         ELSE [result |-> st.result, rc |-> RefCell(Some(idx), Some(val))]
    ELSE st

RECURSIVE get_mergeable_loop(_, _, _)
get_mergeable_loop(line, idx, st) ==
    IF idx >= Len(line) THEN st
    ELSE get_mergeable_loop(line, idx + 1, get_mergeable_body(st, idx, line[idx + 1]))

get_mergeable(line) ==
    get_mergeable_loop(line, 0, [result |-> <<>>, rc |-> RefCell(None, None)]).result

(***************************************************************************)
(* src/board/mod.rs: Board::shift_group                                    *)
(***************************************************************************)
merge_pairs_body_keeps_merger(st, pair) ==
    IF st.panicked THEN st
    ELSE IF pair[2] > Len(st.result) \/ pair[1] >= pair[2] \/ pair[2] >= Len(st.result)
    THEN [st EXCEPT !.panicked = TRUE]
    ELSE IF is_none(st.result[pair[1] + 1]) \/ is_none(st.result[pair[2] + 1])
    THEN [st EXCEPT !.panicked = TRUE]
    ELSE LET m == merge(unwrap(st.result[pair[1] + 1]), unwrap(st.result[pair[2] + 1])) IN
         [result |-> [st.result EXCEPT ![pair[1] + 1] = Some(m.self),
                                       ![pair[2] + 1] = Some(m.other)],
          panicked |-> m.outcome # "Ok"]

\* One turn of `for pair in mergeable`: st holds `result` and whether the
\* call has panicked.  split_at_mut(pair.1) panics past the end, indexing
\* panics out of range, unwrap panics on None and on Err.
merge_pairs_body(st, pair) ==
    IF st.panicked THEN st
    ELSE IF pair[2] > Len(st.result) \/ pair[1] >= pair[2] \/ pair[2] >= Len(st.result)
    THEN [st EXCEPT !.panicked = TRUE]
    ELSE IF is_none(st.result[pair[1] + 1]) \/ is_none(st.result[pair[2] + 1])
    THEN [st EXCEPT !.panicked = TRUE]
    ELSE LET m == merge(unwrap(st.result[pair[1] + 1]), unwrap(st.result[pair[2] + 1])) IN
         IF m.outcome # "Ok"
         THEN [result |-> [st.result EXCEPT ![pair[1] + 1] = Some(m.self),
                                            ![pair[2] + 1] = Some(m.other)],
               panicked |-> TRUE]
         ELSE [result |-> [st.result EXCEPT ![pair[1] + 1] = Some(m.self),
                                            ![pair[2] + 1] = None],
               panicked |-> FALSE]

RECURSIVE merge_pairs_loop(_, _, _)
merge_pairs_loop(pairs, k, st) ==
    IF k > Len(pairs) THEN st
    ELSE merge_pairs_loop(pairs, k + 1, merge_pairs_body(st, pairs[k]))

swap(vec, a, b) == [vec EXCEPT ![a + 1] = vec[b + 1], ![b + 1] = vec[a + 1]]

shift_cells_body_eager(st, idx) ==
    IF is_none(st.swpidx) /\ is_none(st.result[idx + 1])
    THEN [st EXCEPT !.swpidx = Some(idx), !.valid = TRUE]
    ELSE IF is_some(st.swpidx) /\ is_some(st.result[idx + 1])
    THEN [result |-> swap(st.result, unwrap(st.swpidx), idx),
          swpidx |-> None,
          valid |-> TRUE]
    ELSE st

shift_cells_body_quiet(st, idx) ==
    IF is_none(st.swpidx) /\ is_none(st.result[idx + 1])
    THEN [st EXCEPT !.swpidx = Some(idx)]
    ELSE IF is_some(st.swpidx) /\ is_some(st.result[idx + 1])
    THEN [result |-> swap(st.result, unwrap(st.swpidx), idx),
          swpidx |-> None,
          valid |-> st.valid]
    ELSE st

\* One turn of `for idx in 0..result.len()`: st holds `result`, `swpidx`, `valid`.
shift_cells_body(st, idx) ==
    IF is_none(st.swpidx) /\ is_none(st.result[idx + 1])
    THEN [st EXCEPT !.swpidx = Some(idx)]
    ELSE IF is_some(st.swpidx) /\ is_some(st.result[idx + 1])
    THEN [result |-> swap(st.result, unwrap(st.swpidx), idx),
          swpidx |-> None,
          valid |-> TRUE]
    ELSE st

RECURSIVE shift_cells_loop(_, _)
shift_cells_loop(idx, st) ==
    IF idx >= Len(st.result) THEN st
    ELSE shift_cells_loop(idx + 1, shift_cells_body(st, idx))

\* Board::shift_group: the pairs it got from get_mergeable, its local `result`
\* after the merge loop and at the end, and what it returned (or the panic).
shift_group(line) ==
    LET pairs == get_mergeable(line)
        m == merge_pairs_loop(pairs, 1, [result |-> line, panicked |-> FALSE])
    IN  IF m.panicked
        THEN [mergeable |-> pairs, merged |-> m.result, result |-> m.result,
              panicked |-> TRUE, ret |-> None]
        ELSE LET s == shift_cells_loop(0, [result |-> m.result, swpidx |-> None,
                                           valid |-> pairs # <<>>])
             IN  [mergeable |-> pairs, merged |-> m.result, result |-> s.result,
                  panicked |-> FALSE,
                  ret |-> IF s.valid THEN Some(s.result) ELSE None]

(***************************************************************************)
(* src/board.rs, the earlier draft of the line reducer                     *)
(***************************************************************************)
\* Board::shift of the draft: everything but `Ok(())` is commented out, so
\* the vector is left as it was.
draft_shift(vec) == [outcome |-> "Ok", vec |-> vec]

(***************************************************************************)
(* src/board/mod.rs: the Board                                             *)
(***************************************************************************)
\* A BoardGrid is BOARD_ROWS rows of BOARD_COLS cells; a BoardCoord is <<row, col>>.
GridAt(g, pos) == g[pos[1] + 1][pos[2] + 1]
GridSet(g, pos, cell) == [g EXCEPT ![pos[1] + 1][pos[2] + 1] = cell]

\* Board::default: every cell None, no saved state.
Board_default ==
    [grid |-> [r \in 1 .. BOARD_ROWS |-> [c \in 1 .. BOARD_COLS |-> None]],
     history |-> <<>>]

Cell_default_one(gen_bool) == IF gen_bool THEN 4 ELSE 1

\* Cell::default: 4 when gen_bool(CHANCE_OF_FOUR) is true, else 2.
Cell_default(gen_bool) == IF gen_bool THEN 4 ELSE 2

\* 0..n as the code's `0..n` range, in order.
Range0(n) == [k \in 1 .. n |-> k - 1]

RECURSIVE Flatten(_)
Flatten(seqs) == IF seqs = <<>> THEN <<>> ELSE Head(seqs) \o Flatten(Tail(seqs))

\* Board::get_cells_by_emptiness_row; the assert is the caller's to respect.
get_cells_by_emptiness_row(self, is_empty, row) ==
    LET keep(col) == is_empty = is_none(GridAt(self.grid, <<row, col>>))
    IN  [k \in 1 .. Len(SelectSeq(Range0(BOARD_COLS), keep)) |->
            <<row, SelectSeq(Range0(BOARD_COLS), keep)[k]>>]

\* Board::get_cells_by_emptiness: the rows in order, each row's cells in order.
get_cells_by_emptiness(self, is_empty) ==
    Flatten([k \in 1 .. BOARD_ROWS |-> get_cells_by_emptiness_row(self, is_empty, k - 1)])

spawn_at_overwrites(self, pos, cell) ==
    IF ~(pos[1] < BOARD_ROWS) THEN [outcome |-> "Panic", board |-> self]
    ELSE IF ~(pos[2] < BOARD_COLS) THEN [outcome |-> "Panic", board |-> self]
    ELSE [outcome |-> "Ok",
          board |-> [self EXCEPT !.grid = GridSet(self.grid, pos, Some(cell))]]

spawn_at_unchecked(self, pos, cell) ==
    IF ~(pos[1] < BOARD_ROWS) \/ ~(pos[2] < BOARD_COLS)
    THEN [outcome |-> "Err", board |-> self]
    ELSE IF None = GridAt(self.grid, pos)
    THEN [outcome |-> "Ok",
          board |-> [self EXCEPT !.grid = GridSet(self.grid, pos, Some(cell))]]
    ELSE [outcome |-> "Err", board |-> self]

\* Board::spawn_at; `cell` is what Cell::default() returns.
spawn_at(self, pos, cell) ==
    IF ~(pos[1] < BOARD_ROWS) THEN [outcome |-> "Panic", board |-> self]
    ELSE IF ~(pos[2] < BOARD_COLS) THEN [outcome |-> "Panic", board |-> self]
    ELSE IF None = GridAt(self.grid, pos)
    THEN [outcome |-> "Ok",
          board |-> [self EXCEPT !.grid = GridSet(self.grid, pos, Some(cell))]]
    ELSE [outcome |-> "Err", board |-> self]

spawn_in_first_slot(self, choice, cell) == spawn_at(self, <<0, 0>>, cell)

\* Board::spawn; `choice` is the index empty_coords.choose draws (when there
\* is anything to draw from) and `cell` is what Cell::default() returns.
spawn(self, choice, cell) ==
    LET empty_coords == get_cells_by_emptiness(self, TRUE)
        chosen == IF empty_coords = <<>> THEN None ELSE Some(empty_coords[choice + 1])
    IN  IF is_some(chosen)
        THEN spawn_at(self, unwrap(chosen), cell)
        ELSE [outcome |-> "Err", board |-> self]

Board_new_without_spawn(choice, cell) == [outcome |-> "Ok", board |-> Board_default]

\* Board::new; `.expect` panics unless the spawn returned Ok.
Board_new(choice, cell) ==
    LET inst == spawn(Board_default, choice, cell)
    IN  IF inst.outcome = "Ok"
        THEN [outcome |-> "Ok", board |-> inst.board]
        ELSE [outcome |-> "Panic", board |-> inst.board]

Directions == {"Up", "Down", "Left", "Right"}
Shift(dir) == [kind |-> "Shift", dir |-> dir]
Undo == [kind |-> "Undo", dir |-> "none"]
Moves == {Shift(dir) : dir \in Directions} \cup {Undo}
NoMove == [kind |-> "none", dir |-> "none"]

board_undo_keeps_entry(self) ==
    IF self.history # <<>>
    THEN [outcome |-> "Ok",
          board |-> [grid |-> self.history[Len(self.history)], history |-> self.history]]
    ELSE [outcome |-> "Err", board |-> self]

\* Board::board_undo
board_undo(self) ==
    IF self.history # <<>>
    THEN [outcome |-> "Ok",
          board |-> [grid |-> self.history[Len(self.history)],
                     history |-> SubSeq(self.history, 1, Len(self.history) - 1)]]
    ELSE [outcome |-> "Err", board |-> self]

\* Board::board_shift: its body is `todo!()`, which panics.
board_shift(self, dir) == [outcome |-> "Panic", board |-> self]

\* Board::movement
movement(self, mov) ==
    IF mov.kind = "Shift" THEN board_shift(self, mov.dir) ELSE board_undo(self)

\* The board variables of a state in which no Board operation has been called.
NoBoardCall(board) ==
    /\ grid = board.grid
    /\ history = board.history
    /\ coord = <<0, 0>>
    /\ lastMove = NoMove

(***************************************************************************)
(* The line reducer called on every line of at most MaxLen slots           *)
(***************************************************************************)
Lines == UNION {[1 .. n -> BoardCells] : n \in 0 .. MaxLen}

Init ==
    /\ pc = "start"
    /\ cells \in Lines
    /\ mergeable = <<>>
    /\ merged = <<>>
    /\ result = <<>>
    /\ ret = None
    /\ panicked = FALSE
    /\ mergee = 0
    /\ merger = 0
    /\ before = <<0, 0>>
    /\ outcome = "none"
    /\ NoBoardCall(Board_default)

CallGetMergeable ==
    /\ pc = "start"
    /\ pc' = "get_mergeable"
    /\ mergeable' = get_mergeable(cells)
    /\ UNCHANGED <<cells, merged, result, ret, panicked>>
    /\ UNCHANGED cellVars
    /\ UNCHANGED boardVars

CallShiftGroup ==
    /\ pc = "start"
    /\ pc' = "shift_group"
    /\ LET r == shift_group(cells) IN
        /\ mergeable' = r.mergeable
        /\ merged' = r.merged
        /\ result' = r.result
        /\ ret' = r.ret
        /\ panicked' = r.panicked
    /\ UNCHANGED cells
    /\ UNCHANGED cellVars
    /\ UNCHANGED boardVars

\* Board::shift of the draft called on the line: result is the vector afterwards.
CallDraftShift ==
    /\ pc = "start"
    /\ pc' = "draft_shift"
    /\ LET r == draft_shift(cells) IN
        /\ result' = r.vec
        /\ outcome' = r.outcome
    /\ UNCHANGED <<cells, mergeable, merged, ret, panicked>>
    /\ UNCHANGED <<mergee, merger, before>>
    /\ UNCHANGED boardVars

Next == CallGetMergeable \/ CallShiftGroup \/ CallDraftShift

Spec == Init /\ [][Next]_vars

(***************************************************************************)
(* The line reducer fed with its own result: starting from any line of     *)
(* valid cells below the largest value, shift_group is called again on the *)
(* line it returned for as long as it returns one.                         *)
(***************************************************************************)
CellsBelowLargest == {None} \cup {Some(v) : v \in {w \in ValidCells : w < MSB_SET}}

LinesBelowLargest == UNION {[1 .. n -> CellsBelowLargest] : n \in 0 .. MaxLen}

LoopInit ==
    /\ pc = "start"
    /\ cells \in LinesBelowLargest
    /\ mergeable = <<>>
    /\ merged = <<>>
    /\ result = <<>>
    /\ ret = None
    /\ panicked = FALSE
    /\ mergee = 0
    /\ merger = 0
    /\ before = <<0, 0>>
    /\ outcome = "none"
    /\ NoBoardCall(Board_default)

\* shift_group has returned a line: it is called again, on that line.
CallShiftGroupAgain ==
    /\ pc = "shift_group"
    /\ ~panicked
    /\ is_some(ret)
    /\ cells' = unwrap(ret)
    /\ LET r == shift_group(unwrap(ret)) IN
        /\ mergeable' = r.mergeable
        /\ merged' = r.merged
        /\ result' = r.result
        /\ ret' = r.ret
        /\ panicked' = r.panicked
    /\ UNCHANGED pc
    /\ UNCHANGED cellVars
    /\ UNCHANGED boardVars

LoopNext == CallShiftGroup \/ CallShiftGroupAgain

\* What the two steps of the loop do to pc and to cells.
LoopStarts == pc = "start" /\ pc' = "shift_group"
LoopGoesOn == pc = "shift_group" /\ ~panicked /\ is_some(ret) /\ cells' = unwrap(ret)

\* The caller makes its first call and keeps calling for as long as it has a
\* line to call with: a call that returns None or panics is the last one.
LoopSpec == LoopInit /\ [][LoopNext]_vars /\ WF_pc(LoopStarts) /\ WF_cells(LoopGoesOn)

(***************************************************************************)
(* The Cell operations called on every pair of usize values                *)
(***************************************************************************)
CellInit ==
    /\ pc = "start"
    /\ mergee \in Usize
    /\ merger \in Usize
    /\ before = <<mergee, merger>>
    /\ outcome = "none"
    /\ cells = <<>>
    /\ mergeable = <<>>
    /\ merged = <<>>
    /\ result = <<>>
    /\ ret = None
    /\ panicked = FALSE
    /\ NoBoardCall(Board_default)

CallGrow ==
    /\ pc = "start"
    /\ pc' = "grow"
    /\ LET g == grow(mergee) IN
        /\ mergee' = g.self
        /\ outcome' = g.outcome
    /\ UNCHANGED <<merger, before>>
    /\ UNCHANGED lineVars
    /\ UNCHANGED boardVars

CallMerge ==
    /\ pc = "start"
    /\ pc' = "merge"
    /\ LET m == merge(mergee, merger) IN
        /\ mergee' = m.self
        /\ merger' = m.other
        /\ outcome' = m.outcome
    /\ UNCHANGED before
    /\ UNCHANGED lineVars
    /\ UNCHANGED boardVars

CallDraftMerge ==
    /\ pc = "start"
    /\ pc' = "draft_merge"
    /\ LET m == draft_merge(mergee, merger) IN
        /\ mergee' = m.self
        /\ merger' = m.other
        /\ outcome' = m.outcome
    /\ UNCHANGED before
    /\ UNCHANGED lineVars
    /\ UNCHANGED boardVars

\* Cell::new(mergee): ret is the cell it returns, None when it panics.
CallCellNew ==
    /\ pc = "start"
    /\ pc' = "cell_new"
    /\ LET n == new(mergee) IN
        /\ ret' = n.cell
        /\ outcome' = IF n.panicked THEN "Panic" ELSE "Ok"
    /\ UNCHANGED <<mergee, merger, before>>
    /\ UNCHANGED <<cells, mergeable, merged, result, panicked>>
    /\ UNCHANGED boardVars

\* Cell::default(): mergee becomes the cell it returns.
CallDefault ==
    /\ pc = "start"
    /\ pc' = "default"
    /\ \E gen_bool \in BOOLEAN : mergee' = Cell_default(gen_bool)
    /\ outcome' = "Ok"
    /\ UNCHANGED <<merger, before>>
    /\ UNCHANGED lineVars
    /\ UNCHANGED boardVars

CallDraftSpawn ==
    /\ pc = "start"
    /\ pc' = "draft_spawn"
    /\ \E gen_bool \in BOOLEAN :
        LET sp == draft_spawn(mergee, gen_bool) IN
            /\ mergee' = sp.self
            /\ outcome' = sp.outcome
    /\ UNCHANGED <<merger, before>>
    /\ UNCHANGED lineVars
    /\ UNCHANGED boardVars

CallDraftGrow ==
    /\ pc = "start"
    /\ pc' = "draft_grow"
    /\ LET g == draft_grow(mergee) IN
        /\ mergee' = g.self
        /\ outcome' = g.outcome
    /\ UNCHANGED <<merger, before>>
    /\ UNCHANGED lineVars
    /\ UNCHANGED boardVars

CellNext ==
    \/ CallGrow
    \/ CallMerge
    \/ CallDraftMerge
    \/ CallCellNew
    \/ CallDefault
    \/ CallDraftSpawn
    \/ CallDraftGrow

CellSpec == CellInit /\ [][CellNext]_vars

(***************************************************************************)
(* The Board operations called one after another.  Nothing in the code     *)
(* fills the history yet (board_shift is not written), so that the pop of  *)
(* board_undo is exercised the board starts with any history of at most    *)
(* HISTORY_SIZE saved grids drawn from SavedGrids.                         *)
(***************************************************************************)
Coords == {<<r, c>> : r \in 0 .. BOARD_ROWS - 1, c \in 0 .. BOARD_COLS - 1}
\* The coordinates spawn_at is called with: one row and one column too many.
CallCoords == {<<r, c>> : r \in 0 .. BOARD_ROWS, c \in 0 .. BOARD_COLS}

\* The empty grid and the grid holding a single 2 in its first cell.
SavedGrids == {Board_default.grid, GridSet(Board_default.grid, <<0, 0>>, Some(2))}

Histories == UNION {[1 .. n -> SavedGrids] : n \in 0 .. HISTORY_SIZE}

Self == [grid |-> grid, history |-> history]

BoardInit ==
    /\ pc = "board"
    /\ \E h \in Histories : NoBoardCall([grid |-> Board_default.grid, history |-> h])
    /\ outcome = "none"
    /\ cells = <<>>
    /\ mergeable = <<>>
    /\ merged = <<>>
    /\ result = <<>>
    /\ ret = None
    /\ panicked = FALSE
    /\ mergee = 0
    /\ merger = 0
    /\ before = <<0, 0>>

\* What every Board call leaves behind.
BoardCall(name, move, r) ==
    /\ pc = "board"
    /\ pc' = name
    /\ lastMove' = move
    /\ outcome' = r.outcome
    /\ grid' = r.board.grid
    /\ history' = r.board.history
    /\ UNCHANGED <<coord, mergee, merger, before>>
    /\ UNCHANGED lineVars

CallNew ==
    \E choice \in 0 .. BOARD_ROWS * BOARD_COLS - 1, gen_bool \in BOOLEAN :
        BoardCall("new", NoMove, Board_new(choice, Cell_default(gen_bool)))

CallSpawn ==
    \E gen_bool \in BOOLEAN :
        LET n == Len(get_cells_by_emptiness(Self, TRUE)) IN
        \E choice \in 0 .. (IF n = 0 THEN 0 ELSE n - 1) :
            BoardCall("spawn", NoMove, spawn(Self, choice, Cell_default(gen_bool)))

CallSpawnAt ==
    \E pos \in CallCoords, gen_bool \in BOOLEAN :
        BoardCall("spawn_at", NoMove, spawn_at(Self, pos, Cell_default(gen_bool)))

CallMovement ==
    \E move \in Moves : BoardCall("movement", move, movement(Self, move))

\* The caller goes on to its next call; after a panic there is none.
Proceed ==
    /\ pc \in {"new", "spawn", "spawn_at", "movement"}
    /\ outcome # "Panic"
    /\ pc' = "board"
    /\ outcome' = "none"
    /\ lastMove' = NoMove
    /\ UNCHANGED <<grid, history, coord, mergee, merger, before>>
    /\ UNCHANGED lineVars

BoardNext == CallNew \/ CallSpawn \/ CallSpawnAt \/ CallMovement \/ Proceed

BoardSpec == BoardInit /\ [][BoardNext]_vars

(***************************************************************************)
(* The line reducer and the Board operations together: the reducer is      *)
(* called on any line of valid cells, the Board operations on the board.   *)
(***************************************************************************)
GameInit == Init \/ BoardInit

GameNext == Next \/ BoardNext

GameSpec == GameInit /\ [][GameNext]_vars

(***************************************************************************)
(* Board::spawn_at called on its own: on every grid that spawning can      *)
(* build and with every coordinate on the board and one step beyond it.    *)
(***************************************************************************)
SpawnedGrids == [1 .. BOARD_ROWS -> [1 .. BOARD_COLS -> {None, Some(2), Some(4)}]]

SpawnAtInit ==
    /\ pc = "start"
    /\ grid \in SpawnedGrids
    /\ history = <<>>
    /\ coord \in CallCoords
    /\ lastMove = NoMove
    /\ outcome = "none"
    /\ cells = <<>>
    /\ mergeable = <<>>
    /\ merged = <<>>
    /\ result = <<>>
    /\ ret = None
    /\ panicked = FALSE
    /\ mergee = 0
    /\ merger = 0
    /\ before = <<0, 0>>

CallSpawnAtCoord ==
    /\ pc = "start"
    /\ pc' = "spawn_at"
    /\ \E gen_bool \in BOOLEAN :
        LET r == spawn_at(Self, coord, Cell_default(gen_bool)) IN
            /\ outcome' = r.outcome
            /\ grid' = r.board.grid
            /\ history' = r.board.history
    /\ UNCHANGED <<coord, lastMove, mergee, merger, before>>
    /\ UNCHANGED lineVars

SpawnAtNext == CallSpawnAtCoord

SpawnAtSpec == SpawnAtInit /\ [][SpawnAtNext]_vars

(***************************************************************************)
(* Vocabulary of the properties                                            *)
(***************************************************************************)
\* The line whose slots hold the given usize values, 0 standing for an empty slot.
Line(vals) == [k \in 1 .. Len(vals) |-> IF vals[k] = 0 THEN None ELSE Some(vals[k])]

Indices(line) == 0 .. Len(line) - 1
At(line, idx) == line[idx + 1]

\* The tiles of a line in the order they appear, the empty slots left out.
Tiles(line) == SelectSeq(line, is_some)

\* No empty slot lies before an occupied slot.
Packed(line) ==
    \A i, j \in Indices(line) : i < j /\ is_some(At(line, j)) => is_some(At(line, i))

AllEmpty(line) == \A i \in Indices(line) : is_none(At(line, i))

\* Every slot strictly between i and j is empty.
EmptyBetween(line, i, j) == \A k \in Indices(line) : i < k /\ k < j => is_none(At(line, k))

PairSet(pairs) == {pairs[k] : k \in 1 .. Len(pairs)}

ShiftGroupDone == pc = "shift_group"
GetMergeableDone == pc \in {"get_mergeable", "shift_group"}

(***************************************************************************)
(* C1: whenever shift_group returns a line, its occupied slots form a      *)
(* prefix starting at index 0 and the surviving tiles are in the order     *)
(* they had in the input.                                                  *)
(* The code leaves a gap: its shift loop forgets the empty slot it has     *)
(* just vacated, so [_, 2, 4] comes back as [2, _, 4].                     *)
(***************************************************************************)
C1_PackedPrefixInOrder ==
    (ShiftGroupDone /\ is_some(ret)) =>
        /\ Packed(unwrap(ret))
        /\ Tiles(unwrap(ret)) = Tiles(merged)

\* What the code does keep: the order of the surviving tiles.
C1_OrderKept ==
    (ShiftGroupDone /\ is_some(ret)) => Tiles(unwrap(ret)) = Tiles(merged)

(***************************************************************************)
(* C2: for every line shift_group returns None exactly when no merge       *)
(* occurred and no tile changed position, that is when the line it would   *)
(* produce equals the input slot for slot, and returns Some(that line) in  *)
(* every other case.                                                       *)
(* On a line with a pending pair of tiles of the largest value the call    *)
(* returns nothing: Cell::merge panics (see C28).                          *)
(***************************************************************************)
C2_NoneIffUnchanged ==
    ShiftGroupDone =>
        /\ ~panicked
        /\ is_none(ret) <=> (mergeable = <<>> /\ result = cells)
        /\ is_none(ret) <=> result = cells
        /\ is_some(ret) => unwrap(ret) = result

\* The same with the panicking calls set aside.
C2_NoneIffUnchangedWhenReturning ==
    (ShiftGroupDone /\ ~panicked) =>
        /\ is_none(ret) <=> (mergeable = <<>> /\ result = cells)
        /\ is_none(ret) <=> result = cells
        /\ is_some(ret) => unwrap(ret) = result

(***************************************************************************)
(* C3: in one call every tile takes part in at most one merge: the pairs   *)
(* of get_mergeable share no index, a tile produced by a merge holds       *)
(* exactly twice its old value and every slot outside the pairs is left    *)
(* alone by the merge loop, four equal tiles pair as (0,1) and (2,3), and  *)
(* [2,2,2,2] yields [4,4,_,_].                                             *)
(***************************************************************************)
PairIndices(pairs) == {p[1] : p \in PairSet(pairs)} \cup {p[2] : p \in PairSet(pairs)}

FourEqual(line) ==
    /\ Len(line) = 4
    /\ \A i \in Indices(line) : is_some(At(line, i)) /\ At(line, i) = At(line, 0)

C3_AtMostOneMergePerTile ==
    /\ GetMergeableDone =>
        /\ Cardinality(PairIndices(mergeable)) = 2 * Len(mergeable)
        /\ FourEqual(cells) => mergeable = <<(<<0, 1>>), (<<2, 3>>)>>
    /\ (ShiftGroupDone /\ ~panicked) =>
        /\ \A p \in PairSet(mergeable) :
            /\ At(merged, p[1]) = Some(2 * unwrap(At(cells, p[1])))
            /\ At(merged, p[2]) = None
        /\ \A i \in Indices(cells) \ PairIndices(mergeable) : At(merged, i) = At(cells, i)
    /\ (ShiftGroupDone /\ cells = Line(<<2, 2, 2, 2>>)) => ret = Some(Line(<<4, 4, 0, 0>>))

C3_Witness ==
    /\ ShiftGroupDone
    /\ cells = Line(<<2, 2, 2, 2>>)
    /\ mergeable = <<(<<0, 1>>), (<<2, 3>>)>>
    /\ ret = Some(Line(<<4, 4, 0, 0>>))

(***************************************************************************)
(* C4: two occupied slots i < j of equal value v with only empty slots     *)
(* between them, i being pending, are merged: get_mergeable reports        *)
(* (i, j), the merge leaves 2v at i and nothing at j, and [_,2,_,2] and    *)
(* [_,_,2,2] both yield [4,_,_,_].                                         *)
(* When v is the largest value the call panics instead (see C28).          *)
(***************************************************************************)
\* How many tiles of value v stand in a row right before index i, empty slots skipped.
RECURSIVE RunBefore(_, _, _)
RunBefore(line, i, v) ==
    IF i = 0 THEN 0
    ELSE IF is_none(At(line, i - 1)) THEN RunBefore(line, i - 1, v)
    ELSE IF unwrap(At(line, i - 1)) = v THEN 1 + RunBefore(line, i - 1, v)
    ELSE 0

\* The tile at i has not been consumed by a merge with a tile before it.
Pending(line, i) ==
    is_some(At(line, i)) /\ RunBefore(line, i, unwrap(At(line, i))) % 2 = 0

\* i is pending and j is the next tile after it, of the same value.
PendingPair(line, i, j) ==
    /\ i < j
    /\ Pending(line, i)
    /\ is_some(At(line, j))
    /\ At(line, i) = At(line, j)
    /\ EmptyBetween(line, i, j)

C4_Examples ==
    /\ (ShiftGroupDone /\ cells = Line(<<0, 2, 0, 2>>)) => ret = Some(Line(<<4, 0, 0, 0>>))
    /\ (ShiftGroupDone /\ cells = Line(<<0, 0, 2, 2>>)) => ret = Some(Line(<<4, 0, 0, 0>>))

C4_PendingPairMerged ==
    /\ GetMergeableDone =>
        \A i, j \in Indices(cells) : PendingPair(cells, i, j) => <<i, j>> \in PairSet(mergeable)
    /\ ShiftGroupDone =>
        \A i, j \in Indices(cells) : PendingPair(cells, i, j) =>
            /\ ~panicked
            /\ At(merged, i) = Some(2 * unwrap(At(cells, i)))
            /\ At(merged, j) = None
    /\ C4_Examples

\* The same with the panicking calls set aside.
C4_PendingPairMergedWhenReturning ==
    /\ GetMergeableDone =>
        \A i, j \in Indices(cells) : PendingPair(cells, i, j) => <<i, j>> \in PairSet(mergeable)
    /\ (ShiftGroupDone /\ ~panicked) =>
        \A i, j \in Indices(cells) : PendingPair(cells, i, j) =>
            /\ At(merged, i) = Some(2 * unwrap(At(cells, i)))
            /\ At(merged, j) = None
    /\ C4_Examples

(***************************************************************************)
(* C5: get_mergeable never pairs two tiles across a tile of another value: *)
(* every pair (i, j) it reports has i < j, both slots occupied with equal  *)
(* values and only empty slots between them; [_,2,4,2] has no pair and     *)
(* [2,4,4,2] has the one pair (1,2).                                       *)
(***************************************************************************)
C5_PairsAreNeighbours ==
    GetMergeableDone =>
        /\ \A p \in PairSet(mergeable) :
            /\ p[1] \in Indices(cells) /\ p[2] \in Indices(cells)
            /\ p[1] < p[2]
            /\ is_some(At(cells, p[1])) /\ is_some(At(cells, p[2]))
            /\ value(unwrap(At(cells, p[1]))) = value(unwrap(At(cells, p[2])))
            /\ EmptyBetween(cells, p[1], p[2])
        /\ cells = Line(<<0, 2, 4, 2>>) => mergeable = <<>>
        /\ cells = Line(<<2, 4, 4, 2>>) => mergeable = <<(<<1, 2>>)>>

C5_Witness ==
    /\ pc = "get_mergeable"
    /\ cells = Line(<<2, 4, 4, 2>>)
    /\ mergeable = <<(<<1, 2>>)>>

(***************************************************************************)
(* C6: shift_group returns None for an all-empty line of any length.       *)
(***************************************************************************)
C6_AllEmptyIsNone ==
    (ShiftGroupDone /\ AllEmpty(cells)) => (~panicked /\ ret = None)

C6_Witness ==
    /\ ShiftGroupDone
    /\ AllEmpty(cells)
    /\ Len(cells) = 4
    /\ ~panicked
    /\ ret = None

(***************************************************************************)
(* C7: for a line holding exactly one tile, shift_group returns None when  *)
(* the tile is at index 0 and otherwise returns the line with that tile at *)
(* index 0 and every other slot empty.                                     *)
(***************************************************************************)
Occupied(line) == {i \in Indices(line) : is_some(At(line, i))}

\* The line of length n whose only tile, at index 0, is the cell c.
OnlyAtStart(n, c) == [k \in 1 .. n |-> IF k = 1 THEN c ELSE None]

C7_SingleTile ==
    (ShiftGroupDone /\ Cardinality(Occupied(cells)) = 1) =>
        LET i == CHOOSE k \in Occupied(cells) : TRUE IN
            /\ ~panicked
            /\ i = 0 => ret = None
            /\ i # 0 => ret = Some(OnlyAtStart(Len(cells), At(cells, i)))

C7_Witness ==
    /\ ShiftGroupDone
    /\ cells = Line(<<0, 0, 0, 2>>)
    /\ ret = Some(Line(<<2, 0, 0, 0>>))

(***************************************************************************)
(* C8: for a line whose tiles already form a prefix from index 0 and in    *)
(* which no two neighbouring tiles are equal, such as [2,4,8,16] and       *)
(* [2,4,2,4], shift_group returns None.                                    *)
(***************************************************************************)
NoEqualNeighbours(line) ==
    \A i \in Indices(line) :
        (i + 1 \in Indices(line) /\ is_some(At(line, i)) /\ is_some(At(line, i + 1)))
            => At(line, i) # At(line, i + 1)

C8_PackedDistinctIsNone ==
    (ShiftGroupDone /\ Packed(cells) /\ NoEqualNeighbours(cells)) => (~panicked /\ ret = None)

C8_Witness ==
    /\ ShiftGroupDone
    /\ cells \in {Line(<<2, 4, 8, 16>>), Line(<<2, 4, 2, 4>>)}
    /\ ret = None

(***************************************************************************)
(* C9: Cell::merge on two tiles of equal value v succeeds and leaves one   *)
(* tile of value 2v and the other slot absent; on two tiles of unequal     *)
(* value it fails and leaves both as they were.  Stated of both drafts of  *)
(* Cell::merge.                                                            *)
(* src/cell/mod.rs leaves the other tile in place with its value v, and    *)
(* both drafts panic when v is the largest value (see C28).                *)
(***************************************************************************)
\* A usize that is the value of a tile: a power of two, at least 2.
IsTile(v) == count_ones(v) = 1 /\ v >= 2

MergeDone == pc \in {"merge", "draft_merge"}

C9_UnequalFails ==
    (MergeDone /\ IsTile(before[1]) /\ IsTile(before[2]) /\ before[1] # before[2]) =>
        /\ outcome = "Err"
        /\ <<mergee, merger>> = before

C9_MergeEqualAndUnequal ==
    /\ (MergeDone /\ IsTile(before[1]) /\ before[1] = before[2]) =>
        /\ outcome = "Ok"
        /\ mergee = 2 * before[1]
        /\ ~IsTile(merger)
    /\ C9_UnequalFails

\* What holds of the earlier draft (src/cell.rs) below the largest value.
C9_DraftMergeBelowMsb ==
    (pc = "draft_merge" /\ IsTile(before[1]) /\ before[1] = before[2]
        /\ 2 * before[1] <= USIZE_MAX) =>
        /\ outcome = "Ok"
        /\ mergee = 2 * before[1]
        /\ merger = 0

\* What holds of src/cell/mod.rs below the largest value: the other tile stays.
C9_MergeKeepsOther ==
    (pc = "merge" /\ IsTile(before[1]) /\ before[1] = before[2]
        /\ 2 * before[1] <= USIZE_MAX) =>
        /\ outcome = "Ok"
        /\ mergee = 2 * before[1]
        /\ merger = before[2]

(***************************************************************************)
(* C10: Cell::grow on a power of two v >= 2 below the largest              *)
(* representable power of two succeeds and sets the value to exactly 2v;   *)
(* on the largest representable power of two it returns an error and       *)
(* leaves the value unchanged, without wrapping around.                    *)
(***************************************************************************)
\* The largest power of two a usize holds: only the top bit set.
LargestPowerOfTwo == CHOOSE v \in Usize : count_ones(v) = 1 /\ 2 * v > USIZE_MAX

C10_GrowDoublesOrFails ==
    (pc = "grow" /\ IsTile(before[1])) =>
        /\ before[1] < LargestPowerOfTwo => (outcome = "Ok" /\ mergee = 2 * before[1])
        /\ before[1] = LargestPowerOfTwo => (outcome = "Err" /\ mergee = before[1])

C10_Witness ==
    /\ pc = "grow"
    /\ before[1] = LargestPowerOfTwo
    /\ outcome = "Err"
    /\ mergee = LargestPowerOfTwo

(***************************************************************************)
(* C11: after any sequence of Board operations (new, spawn, spawn_at,      *)
(* shift_group applied to a line of the grid, undo) every occupied slot    *)
(* holds an exact power of two that is at least 2: in the grid, in every   *)
(* saved grid, and in the line shift_group works on, after its merge loop, *)
(* after its shift loop and as returned.                                   *)
(***************************************************************************)
AllTiles(line) ==
    \A i \in Indices(line) : is_some(At(line, i)) => IsTile(value(unwrap(At(line, i))))

GridTiles(g) == \A r \in 1 .. Len(g) : AllTiles(g[r])

C11_EveryTileIsPowerOfTwo ==
    /\ GridTiles(grid)
    /\ \A k \in 1 .. Len(history) : GridTiles(history[k])
    /\ AllTiles(cells)
    /\ AllTiles(merged)
    /\ AllTiles(result)
    /\ is_some(ret) => AllTiles(unwrap(ret))

\* A merge has produced the largest tile there is.
C11_Witness ==
    /\ ShiftGroupDone
    /\ is_some(ret)
    /\ \E i \in Indices(unwrap(ret)) :
        /\ At(unwrap(ret), i) = Some(LargestPowerOfTwo)
        /\ At(cells, i) # Some(LargestPowerOfTwo)

\* The board is full of tiles, spawned one by one.
C11_BoardWitness ==
    /\ pc = "spawn"
    /\ outcome = "Ok"
    /\ get_cells_by_emptiness(Self, TRUE) = <<>>

(***************************************************************************)
(* Vocabulary of the properties of a Shift                                 *)
(***************************************************************************)
Reverse(line) == [k \in 1 .. Len(line) |-> line[Len(line) + 1 - k]]

Row(g, r) == g[r + 1]
Column(g, c) == [k \in 1 .. Len(g) |-> g[k][c + 1]]

\* The lines of a grid a shift in the given direction reduces, each read from
\* the commanded edge: index 0 of the line is the slot at that edge.
LinesToward(g, dir) ==
    CASE dir = "Left" -> [k \in 1 .. BOARD_ROWS |-> Row(g, k - 1)]
      [] dir = "Right" -> [k \in 1 .. BOARD_ROWS |-> Reverse(Row(g, k - 1))]
      [] dir = "Up" -> [k \in 1 .. BOARD_COLS |-> Column(g, k - 1)]
      [] dir = "Down" -> [k \in 1 .. BOARD_COLS |-> Reverse(Column(g, k - 1))]

\* What the line reducer makes of a line: the line it returns, or the line
\* itself when it returns None.
Reduced(line) == IF is_some(shift_group(line).ret) THEN unwrap(shift_group(line).ret) ELSE line

\* A shift in the given direction changes at least one line of the grid.
ShiftChanges(g, dir) ==
    \E k \in 1 .. Len(LinesToward(g, dir)) : is_some(shift_group(LinesToward(g, dir)[k]).ret)

OccupiedSlots(g) == {pos \in Coords : is_some(GridAt(g, pos))}

\* The step in which Board::movement is called with a Shift in direction dir.
ShiftStep(dir) == pc = "board" /\ pc' = "movement" /\ lastMove' = Shift(dir)
\* The step in which Board::movement is called with Undo.
UndoStep == pc = "board" /\ pc' = "movement" /\ lastMove' = Undo

(***************************************************************************)
(* C12: undo round trip: when a Shift changes the grid G (the tile spawned *)
(* afterwards included), the Shift succeeds and an Undo called right after *)
(* it succeeds and makes the grid equal to G slot for slot.                *)
(* The code has no Shift: Board::board_shift is todo!(), so the move       *)
(* panics (see C16) and nothing is saved for Undo to restore.              *)
(***************************************************************************)
C12_UndoRestoresGrid ==
    [][\A dir \in Directions :
        (ShiftStep(dir) /\ ShiftChanges(grid, dir)) =>
            /\ outcome' = "Ok"
            /\ board_undo(Self').outcome = "Ok"
            /\ board_undo(Self').board.grid = grid]_vars

(***************************************************************************)
(* C13: a Shift for which no row or column changes returns a failure and   *)
(* leaves the grid and the history exactly as they were.                   *)
(* The code panics instead of returning the failure (see C16).             *)
(***************************************************************************)
C13_UnchangedShiftFails ==
    [][\A dir \in Directions :
        (ShiftStep(dir) /\ ~ShiftChanges(grid, dir)) =>
            /\ outcome' = "Err"
            /\ grid' = grid
            /\ history' = history]_vars

\* The grid and the history are as they were after the panic.
C13_BoardKept ==
    [][\A dir \in Directions : ShiftStep(dir) => grid' = grid /\ history' = history]_vars

(***************************************************************************)
(* C14: the history never holds more than HISTORY_SIZE grids: a successful *)
(* Shift called when the history is full drops the oldest grid and saves   *)
(* the grid it started from.                                               *)
(* No Shift succeeds in the code (see C16), so nothing is ever saved or    *)
(* evicted; the length bound itself holds.                                 *)
(***************************************************************************)
C14_HistoryBounded == Len(history) <= HISTORY_SIZE

C15_UndoPopsOrFails ==
    [][UndoStep =>
        /\ history = <<>> => (outcome' = "Err" /\ grid' = grid /\ history' = history)
        /\ history # <<>> =>
            /\ outcome' = "Ok"
            /\ grid' = history[Len(history)]
            /\ history' = SubSeq(history, 1, Len(history) - 1)
            /\ board_undo(Self').outcome = "Err"
            /\ board_undo(Self').board = Self']_vars

\* An Undo has restored a saved grid that differs from the grid it replaced.
C15_Witness ==
    /\ pc = "movement"
    /\ lastMove = Undo
    /\ outcome = "Ok"
    /\ history = <<>>
    /\ OccupiedSlots(grid) = {<<0, 0>>}

\* An Undo has failed on a board created by Board::new and spawned on since.
C15_FailureWitness ==
    /\ pc = "movement"
    /\ lastMove = Undo
    /\ outcome = "Err"
    /\ history = <<>>
    /\ Cardinality(OccupiedSlots(grid)) = 2

(***************************************************************************)
(* C16: Board::movement never crashes on a well-formed Move: a Shift in    *)
(* any of the four directions and an Undo each return Ok or Err to the     *)
(* caller.                                                                 *)
(* Every Shift panics: Board::board_shift is todo!().                      *)
(***************************************************************************)
C16_MovementReturns == pc = "movement" => outcome \in {"Ok", "Err"}

\* Undo, the one move that is written, returns to the caller.
C16_UndoReturns == (pc = "movement" /\ lastMove = Undo) => outcome \in {"Ok", "Err"}

(***************************************************************************)
(* C17: a Shift Left or Right applies the line reducer to every row and a  *)
(* Shift Up or Down to every column, each line read from the commanded     *)
(* edge: when the Shift changes a line it succeeds, and the grid it leaves *)
(* is, but for the one tile spawned afterwards, the grid of the reduced    *)
(* lines.                                                                  *)
(* The code reduces nothing: Board::board_shift is todo!() and panics (see *)
(* C16).                                                                   *)
(***************************************************************************)
ReducedLines(g, dir) ==
    [k \in 1 .. Len(LinesToward(g, dir)) |-> Reduced(LinesToward(g, dir)[k])]

C17_ShiftReducesEveryLine ==
    [][\A dir \in Directions :
        (ShiftStep(dir) /\ ShiftChanges(grid, dir)) =>
            /\ outcome' = "Ok"
            /\ \E pos \in OccupiedSlots(grid') :
                LinesToward(GridSet(grid', pos, None), dir) = ReducedLines(grid, dir)]_vars

(***************************************************************************)
(* C18: a Shift spawns a tile only after the reduced grid is in place and  *)
(* only when a line changed: a Shift that changes a line succeeds and ends *)
(* with exactly one more occupied slot than the reduced grid has, and a    *)
(* Shift that does not succeed leaves the occupied slots as they were.     *)
(* No Shift succeeds in the code, so no Shift ever spawns (see C16).       *)
(***************************************************************************)
RECURSIVE TileCount(_)
TileCount(lines) ==
    IF lines = <<>> THEN 0 ELSE Len(Tiles(Head(lines))) + TileCount(Tail(lines))

C18_ShiftSpawnsOneTile ==
    [][\A dir \in Directions :
        ShiftStep(dir) =>
            /\ ShiftChanges(grid, dir) =>
                /\ outcome' = "Ok"
                /\ Cardinality(OccupiedSlots(grid')) = TileCount(ReducedLines(grid, dir)) + 1
            /\ outcome' # "Ok" => OccupiedSlots(grid') = OccupiedSlots(grid)]_vars

\* A Shift that does not succeed spawns nothing.
C18_FailedShiftSpawnsNothing ==
    [][\A dir \in Directions :
        (ShiftStep(dir) /\ outcome' # "Ok") => OccupiedSlots(grid') = OccupiedSlots(grid)]_vars

(***************************************************************************)
(* C19: whenever the line reducer changes a line, the line that results    *)
(* has at least one empty slot.                                            *)
(***************************************************************************)
HasEmptySlot(line) == \E i \in Indices(line) : is_none(At(line, i))

C19_ChangedLineHasEmptySlot ==
    ShiftGroupDone =>
        /\ is_some(ret) => HasEmptySlot(unwrap(ret))
        /\ (~panicked /\ result # cells) => HasEmptySlot(result)

\* A line of MaxLen tiles and no empty slot is changed: a merge frees a slot.
C19_Witness ==
    /\ ShiftGroupDone
    /\ Len(cells) = MaxLen
    /\ ~HasEmptySlot(cells)
    /\ is_some(ret)
    /\ Cardinality({i \in Indices(unwrap(ret)) : is_none(At(unwrap(ret), i))}) = 1

(***************************************************************************)
(* C20: Board::new returns a board with an empty history and exactly one   *)
(* occupied slot, that slot holding 2 or 4 and every other slot empty.     *)
(***************************************************************************)
C20_NewBoardHasOneTile ==
    pc = "new" =>
        /\ outcome = "Ok"
        /\ history = <<>>
        /\ Cardinality(OccupiedSlots(grid)) = 1
        /\ \A pos \in OccupiedSlots(grid) : value(unwrap(GridAt(grid, pos))) \in {2, 4}

\* Board::new has put a 4 in the last slot of the grid.
C20_Witness ==
    /\ pc = "new"
    /\ OccupiedSlots(grid) = {<<BOARD_ROWS - 1, BOARD_COLS - 1>>}
    /\ GridAt(grid, <<BOARD_ROWS - 1, BOARD_COLS - 1>>) = Some(4)
    /\ history = <<>>

(***************************************************************************)
(* C21: Board::spawn succeeds exactly when the grid has an empty slot;     *)
(* a success fills one slot that was empty and leaves every other slot as  *)
(* it was, so that the number of occupied slots grows by one with each     *)
(* success until, after BOARD_ROWS * BOARD_COLS of them from an empty      *)
(* board, the board is full; on a full board spawn fails and leaves the    *)
(* grid as it was.  The history is never touched.                          *)
(***************************************************************************)
\* The step in which Board::spawn is called.
SpawnStep == pc = "board" /\ pc' = "spawn"

\* g2 is g1 with the one empty slot pos filled and nothing else changed.
FillsOnly(g1, g2, pos) ==
    /\ is_none(GridAt(g1, pos))
    /\ is_some(GridAt(g2, pos))
    /\ \A other \in Coords \ {pos} : GridAt(g2, other) = GridAt(g1, other)

C21_SpawnIffEmptySlot ==
    [][SpawnStep =>
        /\ outcome' = "Ok" <=> OccupiedSlots(grid) # Coords
        /\ outcome' = "Ok" =>
            /\ \E pos \in Coords : FillsOnly(grid, grid', pos)
            /\ Cardinality(OccupiedSlots(grid')) = Cardinality(OccupiedSlots(grid)) + 1
        /\ outcome' # "Ok" => (outcome' = "Err" /\ grid' = grid)
        /\ history' = history]_vars

\* spawn has failed on a full board.
C21_Witness ==
    /\ pc = "spawn"
    /\ outcome = "Err"
    /\ OccupiedSlots(grid) = Coords
    /\ Cardinality(Coords) = BOARD_ROWS * BOARD_COLS

\* spawn has filled the last empty slot of the board.
C21_LastSlotWitness ==
    /\ pc = "spawn"
    /\ outcome = "Ok"
    /\ OccupiedSlots(grid) = Coords

(***************************************************************************)
(* C22: Board::spawn_at on a coordinate on the board succeeds when the     *)
(* slot is empty, changing only that slot, and returns Err when the slot   *)
(* is occupied, leaving the whole grid, the tile in that slot included, as *)
(* it was.                                                                 *)
(***************************************************************************)
\* The step in which Board::spawn_at is called with the coordinate coord.
SpawnAtStep == pc = "start" /\ pc' = "spawn_at"

C22_SuccessWitness ==
    /\ pc = "spawn_at"
    /\ outcome = "Ok"
    /\ coord \in Coords
    /\ OccupiedSlots(grid) = Coords

(***************************************************************************)
(* C23: Board::spawn_at with a row >= BOARD_ROWS or a column >= BOARD_COLS *)
(* fails an assertion before the grid is touched: it panics, returns       *)
(* neither Ok nor Err, and writes no slot.                                 *)
(***************************************************************************)
C23_SpawnAtOutOfBounds ==
    [][(SpawnAtStep /\ coord \notin Coords) =>
        /\ outcome' = "Panic"
        /\ grid' = grid
        /\ history' = history]_vars

\* spawn_at has panicked on a column beyond the board, in a row on the board.
C23_Witness ==
    /\ pc = "spawn_at"
    /\ coord = <<0, BOARD_COLS>>
    /\ outcome = "Panic"

\* spawn_at has panicked on a row beyond the board, in a column on the board.
C23_RowWitness ==
    /\ pc = "spawn_at"
    /\ coord = <<BOARD_ROWS, 0>>
    /\ outcome = "Panic"

(***************************************************************************)
(* C24: a spawned tile has value 2 or 4 and nothing else (Cell::default,   *)
(* and Cell::spawn of the draft on an empty cell), and spawning into an    *)
(* occupied cell fails without changing that cell's value.                 *)
(***************************************************************************)
C24_SpawnedTileIsTwoOrFour ==
    /\ pc = "default" => mergee \in {2, 4}
    /\ pc = "draft_spawn" =>
        /\ before[1] = 0 => (outcome = "Ok" /\ mergee \in {2, 4})
        /\ before[1] # 0 => (outcome = "Err" /\ mergee = before[1])

\* The draft's spawn has failed on a cell holding 4.
C24_Witness ==
    /\ pc = "draft_spawn"
    /\ before[1] = 4
    /\ outcome = "Err"
    /\ mergee = 4

\* Cell::default has returned a 4.
C24_DefaultWitness == pc = "default" /\ mergee = 4

(***************************************************************************)
(* C25: Cell::new(value) returns a cell holding value exactly when value   *)
(* is a power of two and at least 2, the largest power of two a usize      *)
(* holds included; for 0, 1, 3, usize::MAX and every other value it panics *)
(* and no cell is created.                                                 *)
(***************************************************************************)
PowersOfTwoFromTwo == {2 ^ k : k \in 1 .. USIZE_BITS - 1}

C25_NewIffPowerOfTwo ==
    pc = "cell_new" =>
        /\ before[1] \in PowersOfTwoFromTwo => (outcome = "Ok" /\ ret = Some(before[1]))
        /\ before[1] \notin PowersOfTwoFromTwo => (outcome = "Panic" /\ ret = None)

\* Cell::new has made a cell of the largest power of two.
C25_Witness ==
    /\ pc = "cell_new"
    /\ before[1] = LargestPowerOfTwo
    /\ outcome = "Ok"
    /\ ret = Some(LargestPowerOfTwo)

\* Cell::new has panicked on usize::MAX.
C25_PanicWitness == pc = "cell_new" /\ before[1] = USIZE_MAX /\ outcome = "Panic"

(***************************************************************************)
(* C26: Cell::grow called on a cell that is absent (zero), or whose value  *)
(* is 1 or not a power of two, fails an assertion: it panics, does not     *)
(* return Err and does not change the value.  Stated of both drafts of     *)
(* Cell::grow.                                                             *)
(* The draft of src/cell.rs returns Err on the empty cell and doubles 1    *)
(* and every other value that is not a power of two.                       *)
(***************************************************************************)
C26_GrowAsserts ==
    (pc \in {"grow", "draft_grow"} /\ before[1] \notin PowersOfTwoFromTwo) =>
        (outcome = "Panic" /\ mergee = before[1])

\* Cell::grow of src/cell/mod.rs does assert.
C26_GrowAssertsInCellMod ==
    (pc = "grow" /\ before[1] \notin PowersOfTwoFromTwo) =>
        (outcome = "Panic" /\ mergee = before[1])

(***************************************************************************)
(* C27: Board::shift of the draft, which shifts a line toward the end of   *)
(* the vector, returns an error and leaves the line as it was on every     *)
(* line where nothing can move or merge (all empty, one tile at the last   *)
(* index, a full line without equal neighbours); on every other line it    *)
(* returns Ok with the tiles packed against the last index, [2,_,_,_]      *)
(* becoming [_,_,_,2] and [_,_,2,2] becoming [_,_,_,4].                     *)
(* The draft's body is only `Ok(())`: it returns Ok on every line and      *)
(* moves nothing.                                                          *)
(***************************************************************************)
\* Nothing can move or merge toward the end of the line.
SettledAtEnd(line) == Packed(Reverse(line)) /\ NoEqualNeighbours(line)

C27_DraftShiftTowardEnd ==
    pc = "draft_shift" =>
        /\ SettledAtEnd(cells) => (outcome = "Err" /\ result = cells)
        /\ ~SettledAtEnd(cells) =>
            /\ outcome = "Ok"
            /\ Len(result) = Len(cells)
            /\ result # cells
            /\ Packed(Reverse(result))
        /\ cells = Line(<<2, 0, 0, 0>>) => result = Line(<<0, 0, 0, 2>>)
        /\ cells = Line(<<0, 0, 2, 2>>) => result = Line(<<0, 0, 0, 4>>)

\* The draft never touches the line and never fails.
C27_DraftShiftDoesNothing == pc = "draft_shift" => (outcome = "Ok" /\ result = cells)

(***************************************************************************)
(* C28: merging two equal tiles that both hold the largest power of two a  *)
(* usize holds is a recoverable failure: Cell::merge returns an error with *)
(* neither cell changed, and Board::shift_group does not panic on a line   *)
(* holding such a pair.                                                    *)
(* Cell::merge unwraps the error of Cell::grow and panics, and so does     *)
(* Board::shift_group, which unwraps Cell::merge.                          *)
(***************************************************************************)
C28_LargestMergeFails ==
    (pc = "merge" /\ before = <<LargestPowerOfTwo, LargestPowerOfTwo>>) =>
        /\ outcome = "Err"
        /\ mergee = before[1]
        /\ merger = before[2]

\* Neither cell is changed when the merge panics.
C28_LargestMergeKeepsCells ==
    (pc = "merge" /\ before = <<LargestPowerOfTwo, LargestPowerOfTwo>>) =>
        (mergee = before[1] /\ merger = before[2])

\* shift_group returns to its caller on every line.
C28_ShiftGroupNeverPanics == ShiftGroupDone => ~panicked

\* shift_group panics only on a pair of largest tiles that get_mergeable reports.
C28_ShiftGroupPanicsOnlyOnLargestPair ==
    (ShiftGroupDone /\ panicked) =>
        \E p \in PairSet(mergeable) :
            /\ At(cells, p[1]) = Some(LargestPowerOfTwo)
            /\ At(cells, p[2]) = Some(LargestPowerOfTwo)

(***************************************************************************)
(* C29: Board::shift_group conserves the line: whenever it returns a line, *)
(* that line has the length of the input, the sum of its tile values is    *)
(* the sum of the input's tile values, and it has as many occupied slots   *)
(* as the input less the number of pairs get_mergeable reports.            *)
(***************************************************************************)
RECURSIVE LineSum(_)
LineSum(line) ==
    IF line = <<>> THEN 0
    ELSE (IF is_some(Head(line)) THEN value(unwrap(Head(line))) ELSE 0) + LineSum(Tail(line))

C29_ShiftGroupConserves ==
    (ShiftGroupDone /\ is_some(ret)) =>
        /\ Len(unwrap(ret)) = Len(cells)
        /\ LineSum(unwrap(ret)) = LineSum(cells)
        /\ Len(Tiles(unwrap(ret))) = Len(Tiles(cells)) - Len(mergeable)

\* Two merges in one call: two tiles fewer and the same sum.
C29_Witness ==
    /\ ShiftGroupDone
    /\ is_some(ret)
    /\ Len(mergeable) = 2
    /\ Len(Tiles(unwrap(ret))) = Len(Tiles(cells)) - 2
    /\ LineSum(cells) > 0

(***************************************************************************)
(* C30: starting from any line of valid tiles below the largest value,     *)
(* feeding the result of Board::shift_group back into Board::shift_group   *)
(* reaches None (no change) after finitely many calls.                     *)
(* The merges can produce two tiles of the largest value, on which the     *)
(* next call panics instead of returning (see C28): [16,16,16,16] gives    *)
(* [32,32,_,_] when 32 is the largest value, and the call on that panics.  *)
(***************************************************************************)
C30_ReachesNone == <>(pc = "shift_group" /\ ~panicked /\ is_none(ret))

\* The calls do end: no line is returned changed forever.
C30_CallsEnd == <>(pc = "shift_group" /\ (panicked \/ is_none(ret)))

\* A call panics only on a pair of largest tiles, which earlier merges made.
C30_PanicOnlyOnLargestPair ==
    (pc = "shift_group" /\ panicked) =>
        \E p \in PairSet(mergeable) : At(cells, p[1]) = Some(LargestPowerOfTwo)

====
